---- MODULE Spec2Model ----
(***************************************************************************)
(* The FaceCapture widget (src/src/components/face/face-capture.tsx)       *)
(* hosted by LoginForm (src/src/components/forms/login-form.tsx) or by a   *)
(* signup / admin_update form, as a state machine.                         *)
(*                                                                         *)
(* One action is one JavaScript task: an event handler or the continuation *)
(* of an await, run to its next await, followed by the React commit it     *)
(* causes (re-render and the effects whose dependencies changed).  The     *)
(* setters of an unmounted component are no-ops.  null is 0 for a stream   *)
(* or recorder, "null" for a string.                                       *)
(***************************************************************************)
EXTENDS Integers, Sequences, FiniteSets, TLC

\* ---------------------------------------------------------------- bounds
\* Verification attempts (clicks on the start button) in one behaviour.
MaxAttempts == 2

\* ------------------------------------------------------ program constants
VIDEO_RECORDING_DURATION_MS == 5000
MAX_VIDEO_SIZE_MB == 6
MaxVideoBytes == MAX_VIDEO_SIZE_MB * 1024 * 1024

Contexts == {"login", "signup", "admin_update"}

LivenessStep ==
  { "initial", "awaiting_models", "awaiting_camera_for_video", "recording_video",
    "verifying_video_with_api", "liveness_api_passed_awaiting_final_camera",
    "liveness_api_passed_ready_for_manual_final_capture", "final_capture_active",
    "processing_final_capture", "liveness_failed_or_error" }

\* Every getUserMedia call that resolves yields a new MediaStream.
Streams == 1 .. (2 * MaxAttempts)
Attempts == 1 .. MaxAttempts

\* Sizes of the recorded blob: at the limit and one byte over.
BlobSizes == {MaxVideoBytes, MaxVideoBytes + 1}

VARIABLES
  context,                  \* prop context
  mounted,                  \* the component is mounted
  attempt,                  \* verification attempts started so far
  livenessStep, error, currentStream, isStartingCamera, isCameraActive,
  isRecording, isVerifyingWithAPI, isProcessingFinalCapture,   \* useState
  modelsLoadedRef,          \* modelsLoadedRef.current
  mediaRecorderRef,         \* mediaRecorderRef.current: 0 or the recorder (named by its stream)
  videoSrcObject,           \* videoRef.current.srcObject of the mounted <video>
  playPending,              \* loadedmetadata / play() of the current effect instance outstanding
  modelLoads,               \* loadModels calls awaiting Promise.all
  gumPending,               \* getUserMedia calls awaiting, each with its attempt
  nStreams,                 \* streams obtained so far
  streamAttempt,            \* stream -> attempt that requested it
  liveTracks,               \* streams whose tracks are live
  recorderState,            \* stream -> "none" | "recording" | "inactive"
  onstopPhase,              \* stream -> where the recorder's onstop handler is
  timers,                   \* recorders whose 5000 ms timeout is outstanding
  videoBlobSize,            \* stream -> size of videoBlob in onstop
  loginFrame,               \* stream -> loginFrameDataUrl / loginFrameDescriptor of onstop
  manualCapture,            \* handleManualFinalCapture awaits its descriptor: 0 or the frame's stream
  isProcessingLogin,        \* LoginForm useState
  loginInFlight,            \* loginWithFace calls awaiting
  hist,                     \* attempt -> what happened in it, in order
  calls,                    \* onFaceCaptured calls, in order
  timerFired,               \* recorders whose timeout callback has run
  apiResp,                  \* stream -> the answer the liveness API gave
  uploads,                  \* recorders whose video was posted to the endpoint
  logins,                   \* attempts for which loginWithFace was called
  name, email,              \* SignupForm useState: the text of the two inputs
  isProcessingSignup,       \* SignupForm useState
  signupInFlight,           \* signup calls awaiting
  signupCalls,              \* the arguments of the signup calls, in order
  lastCapture               \* the arguments of SignupForm's latest onFaceCaptured call

vars ==
  << context, mounted, attempt, livenessStep, error, currentStream, isStartingCamera,
     isCameraActive, isRecording, isVerifyingWithAPI, isProcessingFinalCapture,
     modelsLoadedRef, mediaRecorderRef, videoSrcObject, playPending, modelLoads,
     gumPending, nStreams, streamAttempt, liveTracks, recorderState, onstopPhase,
     timers, videoBlobSize, loginFrame, manualCapture, isProcessingLogin, loginInFlight, hist, calls,
     timerFired, apiResp, uploads, logins, name, email, isProcessingSignup,
     signupInFlight, signupCalls, lastCapture >>

\* The state of SignupForm.
signupVars ==
  << name, email, isProcessingSignup, signupInFlight, signupCalls, lastCapture >>

\* The state of FaceCapture and of LoginForm.
captureVars ==
  << context, mounted, attempt, livenessStep, error, currentStream, isStartingCamera,
     isCameraActive, isRecording, isVerifyingWithAPI, isProcessingFinalCapture,
     modelsLoadedRef, mediaRecorderRef, videoSrcObject, playPending, modelLoads,
     gumPending, nStreams, streamAttempt, liveTracks, recorderState, onstopPhase,
     timers, videoBlobSize, loginFrame, manualCapture, isProcessingLogin, loginInFlight, hist, calls,
     timerFired, apiResp, uploads, logins >>

\* The refs the component keeps in step with its state (the effects of lines 68-70
\* run in every commit, before the other effects): in a handler they hold the
\* state of the last render, c.
livenessStepRef(c) == c.livenessStep
isRecordingRef(c) == c.isRecording

\* LoginForm renders <FaceCapture context="login"/> without isParentProcessing;
\* the prop then takes its default.
isParentProcessing == FALSE

IsSignupLike(c) == c = "signup" \/ c = "admin_update"

\* ------------------------------------------------------------ the commit
\* What a handler reads and writes, as one record: the handlers below are
\* functions from this record to the record after the handler.
Cur ==
  [ livenessStep |-> livenessStep, error |-> error, currentStream |-> currentStream,
    isStartingCamera |-> isStartingCamera, isCameraActive |-> isCameraActive,
    isRecording |-> isRecording, isVerifyingWithAPI |-> isVerifyingWithAPI,
    isProcessingFinalCapture |-> isProcessingFinalCapture,
    mediaRecorderRef |-> mediaRecorderRef, videoSrcObject |-> videoSrcObject,
    playPending |-> playPending, modelLoads |-> modelLoads, gumPending |-> gumPending,
    liveTracks |-> liveTracks, recorderState |-> recorderState,
    onstopPhase |-> onstopPhase, timers |-> timers, manualCapture |-> manualCapture,
    isProcessingLogin |-> isProcessingLogin, loginInFlight |-> loginInFlight,
    hist |-> hist, calls |-> calls, uploads |-> uploads, logins |-> logins ]

\* hist[a] with one more event.
Log(r, a, ev) == [r EXCEPT !.hist[a] = Append(@, ev)]

\* The tracks of stream s end (track.stop(), or the device going away): a
\* MediaRecorder recording s becomes inactive and its stop event is queued.
EndTracks(r, s) ==
  IF s = 0 THEN r
  ELSE LET wasRec == r.recorderState[s] = "recording" IN
       [r EXCEPT !.liveTracks = @ \ {s},
                 !.recorderState[s] = IF wasRec THEN "inactive" ELSE @,
                 !.onstopPhase[s] = IF wasRec THEN "queued" ELSE @]

\* stop() guarded by the wrong state: a recording recorder is left alone.
RecorderStopWhenInactive(r, m) ==
  IF m # 0 /\ r.recorderState[m] = "inactive"
  THEN [r EXCEPT !.recorderState[m] = "inactive", !.onstopPhase[m] = "queued"]
  ELSE r

\* MediaRecorder.stop() on recorder m, when it is recording.
RecorderStop(r, m) ==
  IF m # 0 /\ r.recorderState[m] = "recording"
  THEN [r EXCEPT !.recorderState[m] = "inactive", !.onstopPhase[m] = "queued"]
  ELSE r

\* isCameraActiveRef.current is assigned wherever setIsCameraActive is called, with
\* the same value: inside a handler it is the record's isCameraActive.
isCameraActiveRef(r) == r.isCameraActive

\* stopCamera without track.stop(): the element is cleared, the tracks stay live.
stopCameraKeepsTracks(r, closureStream, videoAttached) ==
  LET r1 == [RecorderStop(r, r.mediaRecorderRef) EXCEPT !.mediaRecorderRef = 0]
      r2 == IF videoAttached /\ r1.videoSrcObject # 0
            THEN [r1 EXCEPT !.videoSrcObject = 0]
            ELSE r1
  IN IF closureStream # 0 THEN [r2 EXCEPT !.currentStream = 0]
     ELSE IF isCameraActiveRef(r2) THEN [r2 EXCEPT !.isCameraActive = FALSE] ELSE r2

\* stopCamera as created in a render whose currentStream was closureStream;
\* videoAttached: videoRef.current is an element.
stopCamera(r, closureStream, videoAttached) ==
  LET r1 == [RecorderStop(r, r.mediaRecorderRef) EXCEPT !.mediaRecorderRef = 0]
      r2 == IF videoAttached /\ r1.videoSrcObject # 0
            THEN [EndTracks(r1, r1.videoSrcObject) EXCEPT !.videoSrcObject = 0]
            ELSE r1
  IN IF closureStream # 0 THEN [r2 EXCEPT !.currentStream = 0]
     ELSE IF isCameraActiveRef(r2) THEN [r2 EXCEPT !.isCameraActive = FALSE] ELSE r2

\* What the host form sees when onFaceCaptured is called.  env: what useAuth()
\* gave the form's last render.
AuthEnvs == [authLoading : BOOLEAN, usersEmpty : BOOLEAN]
NoAuth == [authLoading |-> FALSE, usersEmpty |-> FALSE]

\* Only LoginForm is handed the value of useAuth() here.
EnvsOf(c) == IF c = "login" THEN AuthEnvs ELSE {NoAuth}

\* The handler without its check of faceDescriptor.
LoginForm_handleFaceVerifiedAndCapturedAnyDescriptor(r, a, faceDataUrl, faceDescriptor, env) ==
  IF env.authLoading THEN r
  ELSE IF env.usersEmpty /\ ~env.authLoading THEN r
  ELSE [r EXCEPT !.isProcessingLogin = TRUE,
                 !.loginInFlight = @ + 1,
                 !.logins = Append(@, a)]

\* LoginForm.handleFaceVerifiedAndCaptured up to its await.
LoginForm_handleFaceVerifiedAndCaptured(r, a, faceDataUrl, faceDescriptor, env) ==
  IF env.authLoading THEN r
  ELSE IF env.usersEmpty /\ ~env.authLoading THEN r
  ELSE IF faceDescriptor = 0 THEN r
  ELSE [r EXCEPT !.isProcessingLogin = TRUE,
                 !.loginInFlight = @ + 1,
                 !.logins = Append(@, a)]

\* A call of the prop onFaceCaptured by the recorder of stream s (attempt a).
onFaceCaptured(r, a, dataUrl, descriptor, livenessVerificationPassed, env) ==
  LET c == [attempt |-> a, dataUrl |-> dataUrl, descriptor |-> descriptor,
            passed |-> livenessVerificationPassed, trace |-> r.hist[a]]
      r1 == [r EXCEPT !.calls = Append(@, c)]
  IN IF context = "login"
     THEN LoginForm_handleFaceVerifiedAndCaptured(r1, a, dataUrl, descriptor, env)
     ELSE r1

\* startRecordingSequence whose catch reports the attempt as passed.
startRecordingSequenceReportsPassed(r, c, stream, a, mrOk, env) ==
  LET closureStream == c.currentStream IN
  IF isRecordingRef(c) THEN r
  ELSE IF stream = 0 \/ stream \notin r.liveTracks
  THEN stopCamera([r EXCEPT !.error = "stream_inactive",
                            !.livenessStep = "liveness_failed_or_error"],
                  closureStream, TRUE)
  ELSE LET r1 == [r EXCEPT !.isRecording = TRUE, !.livenessStep = "recording_video"] IN
       IF mrOk
       THEN Log([r1 EXCEPT !.mediaRecorderRef = stream,
                           !.recorderState[stream] = "recording",
                           !.onstopPhase[stream] = "none",
                           !.timers = @ \cup {stream}],
                a, "recStart")
       ELSE LET r2 == stopCamera([r1 EXCEPT !.isRecording = FALSE,
                                            !.error = "recorder_error"],
                                 closureStream, TRUE)
                r3 == onFaceCaptured(Log(r2, a, "recError"), a, 0, 0, TRUE, env)
            IN [r3 EXCEPT !.livenessStep = "liveness_failed_or_error"]

\* startRecordingSequence(stream) as created in the render whose state is c, called
\* on r in attempt a.  mrOk: new MediaRecorder(...) and start() do not throw.
startRecordingSequence(r, c, stream, a, mrOk, env) ==
  LET closureStream == c.currentStream IN
  IF isRecordingRef(c) THEN r
  ELSE IF stream = 0 \/ stream \notin r.liveTracks
  THEN stopCamera([r EXCEPT !.error = "stream_inactive",
                            !.livenessStep = "liveness_failed_or_error"],
                  closureStream, TRUE)
  ELSE LET r1 == [r EXCEPT !.isRecording = TRUE, !.livenessStep = "recording_video"] IN
       IF mrOk
       THEN Log([r1 EXCEPT !.mediaRecorderRef = stream,
                           !.recorderState[stream] = "recording",
                           !.onstopPhase[stream] = "none",
                           !.timers = @ \cup {stream}],
                a, "recStart")
       ELSE LET r2 == stopCamera([r1 EXCEPT !.isRecording = FALSE,
                                            !.error = "recorder_error"],
                                 closureStream, TRUE)
                r3 == onFaceCaptured(Log(r2, a, "recError"), a, 0, 0, FALSE, env)
            IN [r3 EXCEPT !.livenessStep = "liveness_failed_or_error"]

\* startCamera(purpose) as created in the render whose state is c (its closure:
\* isStartingCamera, currentStream), called on r in attempt a.
startCamera(r, c, purpose, a, mrOk, env) ==
  IF c.isStartingCamera THEN r
  ELSE IF c.currentStream # 0 /\ isCameraActiveRef(r)
  THEN IF /\ purpose = "video_liveness" /\ context = "login"
          /\ livenessStepRef(c) = "awaiting_camera_for_video" /\ ~isRecordingRef(c)
       THEN startRecordingSequence(r, c, c.currentStream, a, mrOk, env)
       ELSE IF /\ purpose = "final_capture" /\ livenessStepRef(c) # "final_capture_active"
               /\ IsSignupLike(context)
       THEN [r EXCEPT !.livenessStep = "final_capture_active"]
       ELSE r
  ELSE [r EXCEPT !.error = "null",
                 !.isStartingCamera = TRUE,
                 !.livenessStep = IF purpose = "video_liveness"
                                  THEN "awaiting_camera_for_video"
                                  ELSE "liveness_api_passed_awaiting_final_camera",
                 !.gumPending = Append(@, a)]

\* The commit: the effects whose dependencies differ between the previous
\* render (p) and this one (c).  a: the attempt in progress.  What these effects
\* set causes one more commit, whose effects find nothing to do: isCameraActive
\* cleared, or a step other than ..._ready_for_manual_final_capture.
\*  - useEffect[currentStream]: the <video> is keyed by the stream, so a new
\*    stream or null gives a new element; the stream is assigned and
\*    loadedmetadata / play() awaited, or isCameraActive is cleared;
\*  - useEffect[isCameraActive]: to final_capture_active;
\*  - useEffect[livenessStep, startCamera]: the camera for the final capture.
Effects(p, c, a) ==
  LET c1 == IF c.currentStream = p.currentStream THEN c
            ELSE IF c.currentStream # 0
            THEN [c EXCEPT !.videoSrcObject = c.currentStream, !.playPending = TRUE]
            ELSE [c EXCEPT !.videoSrcObject = 0, !.playPending = FALSE,
                           !.isCameraActive = FALSE]
      c2 == IF /\ c.isCameraActive # p.isCameraActive
               /\ isCameraActiveRef(c1)
               /\ livenessStepRef(c) = "liveness_api_passed_awaiting_final_camera"
               /\ IsSignupLike(context)
            THEN [c1 EXCEPT !.livenessStep = "final_capture_active"]
            ELSE c1
      startCameraChanged == \/ c.isStartingCamera # p.isStartingCamera
                            \/ c.currentStream # p.currentStream
  IN IF /\ (c.livenessStep # p.livenessStep \/ startCameraChanged)
        /\ livenessStepRef(c) = "liveness_api_passed_ready_for_manual_final_capture"
        /\ IsSignupLike(context)
     THEN startCamera(c2, c, "final_capture", a, TRUE, NoAuth)
     ELSE c2

\* The state fields: the setters of an unmounted component do nothing.
Frozen(r) ==
  [r EXCEPT !.livenessStep = livenessStep, !.error = error,
            !.currentStream = currentStream, !.isStartingCamera = isStartingCamera,
            !.isCameraActive = isCameraActive, !.isRecording = isRecording,
            !.isVerifyingWithAPI = isVerifyingWithAPI,
            !.isProcessingFinalCapture = isProcessingFinalCapture]

\* The handler's result r becomes the next state; a: the attempt in progress,
\* isMounted: the component is mounted after the handler.
CommitAs(r, a, isMounted) ==
  LET e == IF isMounted THEN Effects(Cur, r, a) ELSE Frozen(r) IN
  /\ livenessStep' = e.livenessStep
  /\ error' = e.error
  /\ currentStream' = e.currentStream
  /\ isStartingCamera' = e.isStartingCamera
  /\ isCameraActive' = e.isCameraActive
  /\ isRecording' = e.isRecording
  /\ isVerifyingWithAPI' = e.isVerifyingWithAPI
  /\ isProcessingFinalCapture' = e.isProcessingFinalCapture
  /\ mediaRecorderRef' = e.mediaRecorderRef
  /\ videoSrcObject' = e.videoSrcObject
  /\ playPending' = e.playPending
  /\ modelLoads' = e.modelLoads
  /\ gumPending' = e.gumPending
  /\ liveTracks' = e.liveTracks
  /\ recorderState' = e.recorderState
  /\ onstopPhase' = e.onstopPhase
  /\ timers' = e.timers
  /\ manualCapture' = e.manualCapture
  /\ isProcessingLogin' = e.isProcessingLogin
  /\ loginInFlight' = e.loginInFlight
  /\ hist' = e.hist
  /\ calls' = e.calls
  /\ uploads' = e.uploads
  /\ logins' = e.logins

Commit(r, a) == CommitAs(r, a, mounted)

\* ------------------------------------------------- the liveness API's answer
\* JavaScript values as far as the answer's handling tells them apart.  A string
\* is modelled by what JSON.parse makes of its text.
Throw == [t |-> "throw"]
JUndefined == [t |-> "undefined"]
JNull == [t |-> "null"]
JNum == [t |-> "num"]
JBool(b) == [t |-> "bool", b |-> b]
JStr(p) == [t |-> "str", parse |-> p]
JObj(live, resp) == [t |-> "obj", isLivePerson |-> live, response |-> resp]

\* JSON.parse(v): v is converted to a string first ("undefined",
\* "[object Object]" are no JSON; "null", a number, "true" are).
JSONparse(v) ==
  CASE v.t = "str" -> v.parse
    [] v.t \in {"undefined", "obj", "throw"} -> Throw
    [] OTHER -> v

\* v.response / v.isLivePerson: a TypeError on null and undefined, undefined
\* on the other primitives.
Field(v, f) ==
  CASE v.t = "throw" -> Throw
    [] v.t \in {"null", "undefined"} -> Throw
    [] v.t = "obj" -> v[f]
    [] OTHER -> JUndefined

FinalData ==
  { JNull, JNum, JObj(JBool(TRUE), JUndefined), JObj(JBool(FALSE), JUndefined),
    JObj(JStr(JBool(TRUE)), JUndefined), JObj(JNum, JUndefined),
    JObj(JUndefined, JUndefined) }
FinalDataStrings ==
  {JStr(x) : x \in FinalData \cup {Throw}}
    \cup {JUndefined, JNum, JObj(JBool(TRUE), JUndefined)}
InnerResponses ==
  {JObj(JUndefined, f) : f \in FinalDataStrings}
    \cup {JNull, JNum, JObj(JBool(TRUE), JUndefined)}
InnerResponseStrings ==
  {JStr(x) : x \in InnerResponses \cup {Throw}}
    \cup {JUndefined, JObj(JUndefined, JStr(JObj(JBool(TRUE), JUndefined)))}
OuterResponses == {JObj(JUndefined, i) : i \in InnerResponseStrings} \cup {JNull}

\* fetch rejects (net = "error"), or resolves with response.ok and a body that
\* response.json() turns into json (Throw: the body is no JSON).
LiveAnswer ==
  JObj(JUndefined, JStr(JObj(JUndefined, JStr(JObj(JBool(TRUE), JUndefined)))))
Responses ==
  {[net |-> "error", ok |-> FALSE, json |-> Throw]}
    \cup [net : {"ok"}, ok : {FALSE}, json : {Throw, LiveAnswer}]
    \cup [net : {"ok"}, ok : {TRUE}, json : OuterResponses \cup {Throw}]

\* The answer's handling without the check of response.ok.
CheckLivenessIgnoresStatus(resp) ==
  IF resp.net = "error" THEN "error"
  ELSE IF resp.json = Throw THEN "error"
  ELSE LET innerJsonResponse == JSONparse(Field(resp.json, "response"))
           finalData == JSONparse(Field(innerJsonResponse, "response"))
           isLive == Field(finalData, "isLivePerson")
       IN IF isLive = Throw THEN "error"
          ELSE IF isLive = JBool(TRUE) THEN "live" ELSE "notLive"

\* Lines 221-231: "live", "notLive", or "error" (the catch of line 249).
CheckLiveness(resp) ==
  IF resp.net = "error" THEN "error"
  ELSE IF ~resp.ok THEN "error"
  ELSE IF resp.json = Throw THEN "error"
  ELSE LET innerJsonResponse == JSONparse(Field(resp.json, "response"))
           finalData == JSONparse(Field(innerJsonResponse, "response"))
           isLive == Field(finalData, "isLivePerson")
       IN IF isLive = Throw THEN "error"
          ELSE IF isLive = JBool(TRUE) THEN "live" ELSE "notLive"

\* What the answer was, for the record: was the status ok, did the outer and
\* the inner field hold JSON text, was isLivePerson the boolean true.
Summary(resp) ==
  LET httpOk == resp.net = "ok" /\ resp.ok
      outerStr == Field(resp.json, "response")
      outerParses == httpOk /\ outerStr # Throw /\ JSONparse(outerStr) # Throw
      innerStr == Field(JSONparse(outerStr), "response")
      innerParses == outerParses /\ innerStr # Throw /\ JSONparse(innerStr) # Throw
      fin == JSONparse(innerStr)
  IN [ httpOk |-> httpOk, outerParses |-> outerParses, innerParses |-> innerParses,
       isLiveTrue |-> innerParses /\ fin.t = "obj" /\ fin.isLivePerson = JBool(TRUE) ]

NoSummary == [httpOk |-> FALSE, outerParses |-> FALSE, innerParses |-> FALSE,
              isLiveTrue |-> FALSE]

\* --------------------------------------------------------------- buttons
showInitialButton ==
  /\ \/ livenessStep = "initial"
     \/ /\ livenessStep = "liveness_api_passed_awaiting_final_camera"
        /\ context = "login" /\ ~isParentProcessing
  /\ modelsLoadedRef /\ error = "null" /\ ~isStartingCamera /\ ~isRecording
  /\ ~isVerifyingWithAPI

initialButtonDisabled ==
  \/ isStartingCamera \/ isRecording \/ isVerifyingWithAPI \/ ~modelsLoadedRef
  \/ (context = "login" /\ isParentProcessing)

showRetryButton ==
  /\ livenessStep = "liveness_failed_or_error"
  /\ ~isStartingCamera /\ ~isRecording /\ ~isVerifyingWithAPI
  /\ ~isProcessingFinalCapture

showManualFinalCaptureButton ==
  /\ livenessStep \in { "liveness_api_passed_ready_for_manual_final_capture",
                        "final_capture_active" }
  /\ isCameraActive /\ ~isProcessingFinalCapture /\ IsSignupLike(context)

manualButtonDisabled == isProcessingFinalCapture \/ isStartingCamera \/ ~isCameraActive

\* ------------------------------------------------------------ SignupForm
\* Calls of SignupForm's onFaceCaptured handler in one behaviour.
MaxCaptures == 2

\* JavaScript values by their text; "null" and "undefined" are the two
\* non-values, "[]" an array without elements.
Names == {"", "Ana"}
Emails == {"", "ana@example.com"}
FaceDataUrls == {"null", "", "data:image/png"}
FaceDescriptors == {"null", "[]", "[0.12]"}
PassedArgs == {"undefined", "true", "false"}

\* ToBoolean: null, undefined, the empty string and false are falsy; an array is
\* truthy even when empty.
Truthy(v) == v \notin {"null", "undefined", "", "false"}

NoCapture ==
  [ n |-> 0, name |-> "", email |-> "", faceDataUrl |-> "null",
    faceDescriptor |-> "null", livenessVerificationPassed |-> "undefined",
    signupCalled |-> FALSE ]

\* The handler without its return on livenessVerificationPassed === false.
SignupForm_handleFaceVerifiedAndCapturedSkipsFailed(faceDataUrl, faceDescriptor, livenessVerificationPassed) ==
  IF ~Truthy(name) \/ ~Truthy(email) THEN "return"
  ELSE IF /\ Truthy(livenessVerificationPassed)
          /\ (~Truthy(faceDataUrl) \/ ~Truthy(faceDescriptor)) THEN "return"
  ELSE IF \/ livenessVerificationPassed = "undefined"
          \/ ~Truthy(faceDataUrl) \/ ~Truthy(faceDescriptor) THEN "return"
  ELSE "signup"

\* SignupForm.handleFaceVerifiedAndCaptured (first definition) up to its await:
\* "return" (with setIsProcessingSignup(false)) or "signup" (the call is made).
SignupForm_handleFaceVerifiedAndCaptured(faceDataUrl, faceDescriptor, livenessVerificationPassed) ==
  IF ~Truthy(name) \/ ~Truthy(email) THEN "return"
  ELSE IF livenessVerificationPassed = "false" THEN "return"
  ELSE IF /\ Truthy(livenessVerificationPassed)
          /\ (~Truthy(faceDataUrl) \/ ~Truthy(faceDescriptor)) THEN "return"
  ELSE IF \/ livenessVerificationPassed = "undefined"
          \/ ~Truthy(faceDataUrl) \/ ~Truthy(faceDescriptor) THEN "return"
  ELSE "signup"

\* ------------------------------------------------------------------ Init
\* After the first commit: the mount effect has called loadModels.
Init ==
  /\ context \in Contexts
  /\ mounted = TRUE
  /\ attempt = 0
  /\ livenessStep = "awaiting_models"
  /\ error = "null"
  /\ currentStream = 0
  /\ isStartingCamera = FALSE /\ isCameraActive = FALSE /\ isRecording = FALSE
  /\ isVerifyingWithAPI = FALSE /\ isProcessingFinalCapture = FALSE
  /\ modelsLoadedRef = FALSE
  /\ mediaRecorderRef = 0
  /\ videoSrcObject = 0
  /\ playPending = FALSE
  /\ modelLoads = 1
  /\ gumPending = << >>
  /\ nStreams = 0
  /\ streamAttempt = [s \in Streams |-> 0]
  /\ liveTracks = {}
  /\ recorderState = [s \in Streams |-> "none"]
  /\ onstopPhase = [s \in Streams |-> "none"]
  /\ timers = {}
  /\ videoBlobSize = [s \in Streams |-> 0]
  /\ loginFrame = [s \in Streams |-> [dataUrl |-> 0, descriptor |-> 0]]
  /\ manualCapture = 0
  /\ isProcessingLogin = FALSE
  /\ loginInFlight = 0
  /\ hist = [a \in Attempts |-> << >>]
  /\ calls = << >>
  /\ timerFired = {}
  /\ apiResp = [s \in Streams |-> NoSummary]
  /\ uploads = {}
  /\ logins = << >>
  /\ name = "" /\ email = ""
  /\ isProcessingSignup = FALSE
  /\ signupInFlight = 0
  /\ signupCalls = << >>
  /\ lastCapture = NoCapture

\* --------------------------------------------------------------- actions
\* Promise.all of loadModels resolves.
ModelsLoaded ==
  /\ modelLoads > 0
  /\ modelsLoadedRef' = TRUE
  /\ Commit([Cur EXCEPT !.modelLoads = @ - 1, !.livenessStep = "initial"], attempt)
  /\ UNCHANGED << signupVars, context, mounted, attempt, nStreams, streamAttempt, videoBlobSize,
                  loginFrame, timerFired, apiResp >>

\* Promise.all of loadModels rejects.
ModelsLoadFails ==
  /\ modelLoads > 0
  /\ Commit([Cur EXCEPT !.modelLoads = @ - 1, !.error = "models_error",
                        !.livenessStep = "liveness_failed_or_error"], attempt)
  /\ UNCHANGED << signupVars, context, mounted, attempt, modelsLoadedRef, nStreams, streamAttempt,
                  videoBlobSize, loginFrame, timerFired, apiResp >>

\* The handler without its check of modelsLoadedRef.
handleStartHumanVerificationUnchecked(r, c, a, mrOk, env) ==
  LET r0 == [r EXCEPT !.error = "null"]
      r1 == IF livenessStepRef(c) # "initial"
            THEN [r0 EXCEPT !.isRecording = FALSE, !.isVerifyingWithAPI = FALSE]
            ELSE r0
  IN startCamera(r1, c, "video_liveness", a, mrOk, env)

\* handleStartHumanVerification as created in the render whose state is c, to its
\* await; a: the attempt it starts.
handleStartHumanVerification(r, c, a, mrOk, env) ==
  IF ~modelsLoadedRef THEN r
  ELSE LET r0 == [r EXCEPT !.error = "null"]
           r1 == IF livenessStepRef(c) # "initial"
                 THEN [r0 EXCEPT !.isRecording = FALSE, !.isVerifyingWithAPI = FALSE]
                 ELSE r0
       IN startCamera(r1, c, "video_liveness", a, mrOk, env)

\* A click on the start button.
HandleStartHumanVerification ==
  /\ mounted /\ showInitialButton /\ ~initialButtonDisabled
  /\ attempt < MaxAttempts
  /\ attempt' = attempt + 1
  /\ \E mrOk \in BOOLEAN, env \in EnvsOf(context) :
       Commit(handleStartHumanVerification(Cur, Cur, attempt + 1, mrOk, env),
              attempt + 1)
  /\ UNCHANGED << signupVars, context, mounted, modelsLoadedRef, nStreams, streamAttempt,
                  videoBlobSize, loginFrame, timerFired, apiResp >>

\* getUserMedia resolves with a new stream.
GetUserMediaResolves ==
  /\ gumPending # << >>
  /\ nStreams < 2 * MaxAttempts
  /\ LET a == Head(gumPending)
         s == nStreams + 1
     IN /\ nStreams' = s
        /\ streamAttempt' = [streamAttempt EXCEPT ![s] = a]
        /\ Commit(Log([Cur EXCEPT !.gumPending = Tail(@),
                                  !.liveTracks = @ \cup {s},
                                  !.currentStream = s,
                                  !.isStartingCamera = FALSE], a, "stream"), a)
  /\ UNCHANGED << signupVars, context, mounted, attempt, modelsLoadedRef, videoBlobSize, loginFrame,
                  timerFired, apiResp >>

\* The catch of startCamera without its finally.
startCameraCatchStaysStarting(r, notAllowed) ==
  [r EXCEPT !.error = IF notAllowed THEN "Permiso de camara denegado."
                      ELSE "camera_error",
            !.livenessStep = "liveness_failed_or_error",
            !.currentStream = 0]

\* The catch and the finally of startCamera (lines 302-312); notAllowed: the
\* rejection is a NotAllowedError.  The message is written here without its accent.
startCameraCatch(r, notAllowed) ==
  [r EXCEPT !.error = IF notAllowed THEN "Permiso de camara denegado."
                      ELSE "camera_error",
            !.livenessStep = "liveness_failed_or_error",
            !.currentStream = 0,
            !.isStartingCamera = FALSE]

\* getUserMedia rejects.
GetUserMediaRejects(notAllowed) ==
  /\ gumPending # << >>
  /\ Commit(startCameraCatch([Cur EXCEPT !.gumPending = Tail(@)], notAllowed),
            Head(gumPending))
  /\ UNCHANGED << signupVars, context, mounted, attempt, modelsLoadedRef, nStreams, streamAttempt,
                  videoBlobSize, loginFrame, timerFired, apiResp >>

\* loadedmetadata, then video.play() resolves (the effect is not aborted).
PlayResolves ==
  /\ mounted /\ playPending
  /\ \E mrOk \in BOOLEAN, env \in EnvsOf(context) :
       LET r == [Cur EXCEPT !.playPending = FALSE, !.isCameraActive = TRUE] IN
       IF /\ context = "login"
          /\ livenessStepRef(Cur) = "awaiting_camera_for_video"
          /\ ~isRecordingRef(Cur)
       THEN Commit(startRecordingSequence(r, Cur, currentStream,
                                          streamAttempt[currentStream], mrOk, env),
                   streamAttempt[currentStream])
       ELSE Commit(r, attempt)
  /\ UNCHANGED << signupVars, context, mounted, attempt, modelsLoadedRef, nStreams, streamAttempt,
                  videoBlobSize, loginFrame, timerFired, apiResp >>

\* video.play() rejects.
PlayRejects ==
  /\ mounted /\ playPending
  /\ Commit(stopCamera([Cur EXCEPT !.playPending = FALSE, !.error = "play_error",
                                   !.livenessStep = "liveness_failed_or_error"],
                       currentStream, TRUE), attempt)
  /\ UNCHANGED << signupVars, context, mounted, attempt, modelsLoadedRef, nStreams, streamAttempt,
                  videoBlobSize, loginFrame, timerFired, apiResp >>

\* A timeout callback that does not stop the recorder.
TimerFiresWithoutStop(s) ==
  /\ s \in timers
  /\ timerFired' = timerFired \cup {s}
  /\ Commit([Cur EXCEPT !.timers = @ \ {s}], attempt)
  /\ UNCHANGED << signupVars, context, mounted, attempt, modelsLoadedRef, nStreams, streamAttempt,
                  videoBlobSize, loginFrame, apiResp >>

\* The setTimeout callback of the recording of stream s.
TimerFires(s) ==
  /\ s \in timers
  /\ timerFired' = timerFired \cup {s}
  /\ Commit(RecorderStop([Cur EXCEPT !.timers = @ \ {s}], mediaRecorderRef), attempt)
  /\ UNCHANGED << signupVars, context, mounted, attempt, modelsLoadedRef, nStreams, streamAttempt,
                  videoBlobSize, loginFrame, apiResp >>

\* The camera goes away (unplugged, permission revoked): the tracks of s end.
TrackEnded(s) ==
  /\ s \in liveTracks
  /\ Commit(EndTracks(Cur, s), attempt)
  /\ UNCHANGED << signupVars, context, mounted, attempt, modelsLoadedRef, nStreams, streamAttempt,
                  videoBlobSize, loginFrame, timerFired, apiResp >>

\* onstop that does not report a video over the limit to the host.
OnStopAfterFrameSilent(r, s, a, size, env) ==
  LET r1 == Log(stopCamera(r, s, mounted), a, "stopCamera")
      r2 == Log([r1 EXCEPT !.livenessStep = "verifying_video_with_api",
                           !.isVerifyingWithAPI = TRUE], a, "verifying")
  IN IF size > MAX_VIDEO_SIZE_MB * 1024 * 1024
     THEN LET r3 == Log([r2 EXCEPT !.error = "video_too_large"], a, "tooLarge")
          IN [r3 EXCEPT !.livenessStep = "liveness_failed_or_error",
                        !.isVerifyingWithAPI = FALSE,
                        !.onstopPhase[s] = "done"]
     ELSE Log([r2 EXCEPT !.onstopPhase[s] = "api", !.uploads = @ \cup {s}],
              a, "upload")

\* onstop that also rejects a video of exactly the limit.
OnStopAfterFrameAtLimit(r, s, a, size, env) ==
  LET r1 == Log(stopCamera(r, s, mounted), a, "stopCamera")
      r2 == Log([r1 EXCEPT !.livenessStep = "verifying_video_with_api",
                           !.isVerifyingWithAPI = TRUE], a, "verifying")
  IN IF size >= MAX_VIDEO_SIZE_MB * 1024 * 1024
     THEN LET r3 == onFaceCaptured(Log([r2 EXCEPT !.error = "video_too_large"],
                                       a, "tooLarge"), a, 0, 0, FALSE, env)
          IN [r3 EXCEPT !.livenessStep = "liveness_failed_or_error",
                        !.isVerifyingWithAPI = FALSE,
                        !.onstopPhase[s] = "done"]
     ELSE Log([r2 EXCEPT !.onstopPhase[s] = "api", !.uploads = @ \cup {s}],
              a, "upload")

\* onstop from line 204 (after the login frame) to the fetch: the recorder of
\* stream s, attempt a, blob of size bytes.
OnStopAfterFrame(r, s, a, size, env) ==
  LET r1 == Log(stopCamera(r, s, mounted), a, "stopCamera")
      r2 == Log([r1 EXCEPT !.livenessStep = "verifying_video_with_api",
                           !.isVerifyingWithAPI = TRUE], a, "verifying")
  IN IF size > MAX_VIDEO_SIZE_MB * 1024 * 1024
     THEN LET r3 == onFaceCaptured(Log([r2 EXCEPT !.error = "video_too_large"],
                                       a, "tooLarge"), a, 0, 0, FALSE, env)
          IN [r3 EXCEPT !.livenessStep = "liveness_failed_or_error",
                        !.isVerifyingWithAPI = FALSE,
                        !.onstopPhase[s] = "done"]
     ELSE Log([r2 EXCEPT !.onstopPhase[s] = "api", !.uploads = @ \cup {s}],
              a, "upload")

\* A frame kept from the first stream instead of the one on show.
LoginFrameSourceStale == IF nStreams > 1 THEN 1 ELSE videoSrcObject

\* What drawImage(video, ...) of onstop draws: the frame the <video> shows, of
\* the stream that is its srcObject.
LoginFrameSource == videoSrcObject

\* The stop event of the recorder of stream s: onstop to its first await.
\* videoReady: readyState >= HAVE_CURRENT_DATA and videoWidth > 0.
MediaRecorderOnStop(s) ==
  /\ onstopPhase[s] = "queued"
  /\ \E size \in BlobSizes, videoReady \in BOOLEAN, env \in EnvsOf(context) :
       LET a == streamAttempt[s]
           r0 == Log([Cur EXCEPT !.isRecording = FALSE, !.mediaRecorderRef = 0],
                     a, "recStop")
           takesFrame == /\ context = "login" /\ mounted /\ modelsLoadedRef
                         /\ videoSrcObject # 0 /\ videoReady
       IN /\ videoBlobSize' = [videoBlobSize EXCEPT ![s] = size]
          /\ IF takesFrame
             THEN /\ loginFrame' = [loginFrame EXCEPT ![s].dataUrl = LoginFrameSource]
                  /\ Commit(Log([r0 EXCEPT !.onstopPhase[s] = "descriptor"],
                                a, "frame"), a)
             ELSE /\ loginFrame' = loginFrame
                  /\ Commit(OnStopAfterFrame(r0, s, a, size, env), a)
  /\ UNCHANGED << signupVars, context, mounted, attempt, modelsLoadedRef, nStreams, streamAttempt,
                  timerFired, apiResp >>

\* faceapi.detectSingleFace(canvas) of onstop settles; found: with a detection
\* (else with none, or it rejects and the catch of line 199 logs it).
LoginDescriptorSettles(s) ==
  /\ onstopPhase[s] = "descriptor"
  /\ \E found \in BOOLEAN, env \in EnvsOf(context) :
       /\ loginFrame' = [loginFrame EXCEPT
                           ![s].descriptor = IF found THEN loginFrame[s].dataUrl ELSE 0]
       /\ Commit(OnStopAfterFrame(Cur, s, streamAttempt[s], videoBlobSize[s], env),
                 streamAttempt[s])
  /\ UNCHANGED << signupVars, context, mounted, attempt, modelsLoadedRef, nStreams, streamAttempt,
                  videoBlobSize, timerFired, apiResp >>

\* The fetch of the recorder of stream s settles with resp: lines 222-255.
ApiReturns(s) ==
  /\ onstopPhase[s] = "api"
  /\ \E resp \in Responses, env \in EnvsOf(context) :
       LET a == streamAttempt[s]
           res == CheckLiveness(resp)
           r0 == [Cur EXCEPT !.onstopPhase[s] = "done"]
           r1 == IF res = "live"
                 THEN IF context = "login"
                      THEN [onFaceCaptured(Log(r0, a, "apiLive"), a,
                                           loginFrame[s].dataUrl,
                                           loginFrame[s].descriptor, TRUE, env)
                              EXCEPT !.livenessStep =
                                       "liveness_api_passed_awaiting_final_camera"]
                      ELSE [Log(r0, a, "apiLive") EXCEPT !.livenessStep =
                              "liveness_api_passed_ready_for_manual_final_capture"]
                 ELSE IF res = "notLive"
                 THEN [onFaceCaptured(Log([r0 EXCEPT !.error = "not_live"],
                                          a, "apiNotLive"), a, 0, 0, FALSE, env)
                         EXCEPT !.livenessStep = "liveness_failed_or_error"]
                 ELSE [onFaceCaptured(Log([r0 EXCEPT !.error = "api_error"],
                                          a, "apiError"), a, 0, 0, FALSE, env)
                         EXCEPT !.livenessStep = "liveness_failed_or_error"]
       IN /\ apiResp' = [apiResp EXCEPT ![s] = Summary(resp)]
          /\ Commit([r1 EXCEPT !.isVerifyingWithAPI = FALSE], a)
  /\ UNCHANGED << signupVars, context, mounted, attempt, modelsLoadedRef, nStreams, streamAttempt,
                  videoBlobSize, loginFrame, timerFired >>

\* loadModels, called when the models are not loaded.
loadModels(r) ==
  IF modelsLoadedRef
  THEN IF livenessStepRef(Cur) # "initial" THEN [r EXCEPT !.livenessStep = "initial"]
       ELSE r
  ELSE [r EXCEPT !.livenessStep = "awaiting_models", !.modelLoads = @ + 1]

\* handleRetry without setError(null).
handleRetryKeepsError(r, c) ==
  LET r1 == [stopCamera(r, c.currentStream, TRUE)
               EXCEPT !.isRecording = FALSE,
                      !.isVerifyingWithAPI = FALSE,
                      !.isProcessingFinalCapture = FALSE,
                      !.livenessStep = "initial"]
  IN IF ~modelsLoadedRef THEN loadModels(r1) ELSE r1

\* handleRetry as created in the render whose state is c.
handleRetry(r, c) ==
  LET r1 == [stopCamera(r, c.currentStream, TRUE)
               EXCEPT !.error = "null", !.isRecording = FALSE,
                      !.isVerifyingWithAPI = FALSE,
                      !.isProcessingFinalCapture = FALSE,
                      !.livenessStep = "initial"]
  IN IF ~modelsLoadedRef THEN loadModels(r1) ELSE r1

\* A click on the retry button.
HandleRetry ==
  /\ mounted /\ showRetryButton
  /\ Commit(handleRetry(Cur, Cur), attempt)
  /\ UNCHANGED << signupVars, context, mounted, attempt, modelsLoadedRef, nStreams, streamAttempt,
                  videoBlobSize, loginFrame, timerFired, apiResp >>

\* The component is unmounted: the effect clean-ups run (abort of the video
\* effect, stopCamera).  attached: videoRef.current still is the element when
\* the clean-up runs (React detaches the refs of a removed element; whether
\* before or after a passive clean-up is the renderer's affair).
Unmount ==
  /\ mounted
  /\ mounted' = FALSE
  /\ \E attached \in BOOLEAN :
       CommitAs(stopCamera([Cur EXCEPT !.playPending = FALSE], currentStream, attached),
                attempt, FALSE)
  /\ UNCHANGED << signupVars, context, attempt, modelsLoadedRef, nStreams, streamAttempt,
                  videoBlobSize, loginFrame, timerFired, apiResp >>

\* loginWithFace settles: the finally of LoginForm.
LoginWithFaceSettles ==
  /\ loginInFlight > 0
  /\ Commit([Cur EXCEPT !.loginInFlight = @ - 1, !.isProcessingLogin = FALSE], attempt)
  /\ UNCHANGED << signupVars, context, mounted, attempt, modelsLoadedRef, nStreams, streamAttempt,
                  videoBlobSize, loginFrame, timerFired, apiResp >>

\* A click on the manual capture button: handleManualFinalCapture to its await.
HandleManualFinalCapture ==
  /\ mounted /\ showManualFinalCaptureButton /\ ~manualButtonDisabled
  /\ IF \/ currentStream = 0 \/ ~isCameraActive
        \/ livenessStepRef(Cur) # "final_capture_active"
        \/ ~IsSignupLike(context)
     THEN Commit(Cur, attempt)
     ELSE Commit([Cur EXCEPT !.isProcessingFinalCapture = TRUE,
                             !.livenessStep = "processing_final_capture",
                             !.manualCapture = videoSrcObject], attempt)
  /\ UNCHANGED << signupVars, context, mounted, attempt, modelsLoadedRef, nStreams, streamAttempt,
                  videoBlobSize, loginFrame, timerFired, apiResp >>

\* detectSingleFace of handleManualFinalCapture settles: lines 498-510.
ManualDescriptorSettles ==
  /\ manualCapture # 0
  /\ \E found \in BOOLEAN, env \in EnvsOf(context) :
       LET a == streamAttempt[manualCapture]
           r1 == onFaceCaptured([Cur EXCEPT !.manualCapture = 0], a, manualCapture,
                                IF found THEN manualCapture ELSE 0, TRUE, env)
           r2 == stopCamera(r1, manualCapture, mounted)
       IN Commit([r2 EXCEPT !.isProcessingFinalCapture = FALSE,
                            !.livenessStep = "initial"], a)
  /\ UNCHANGED << signupVars, context, mounted, attempt, modelsLoadedRef, nStreams, streamAttempt,
                  videoBlobSize, loginFrame, timerFired, apiResp >>

\* The user types into the name input (enabled while the form is not processing).
SetName ==
  /\ ~isProcessingSignup
  /\ \E v \in Names : name' = v
  /\ UNCHANGED << captureVars, email, isProcessingSignup, signupInFlight, signupCalls,
                  lastCapture >>

\* The user types into the email input.
SetEmail ==
  /\ ~isProcessingSignup
  /\ \E v \in Emails : email' = v
  /\ UNCHANGED << captureVars, name, isProcessingSignup, signupInFlight, signupCalls,
                  lastCapture >>

\* onFaceCaptured of SignupForm is called with some arguments.
SignupOnFaceCaptured ==
  /\ lastCapture.n < MaxCaptures
  /\ \E faceDataUrl \in FaceDataUrls, faceDescriptor \in FaceDescriptors,
        livenessVerificationPassed \in PassedArgs :
       LET out == SignupForm_handleFaceVerifiedAndCaptured(
                    faceDataUrl, faceDescriptor, livenessVerificationPassed)
           c == [ n |-> lastCapture.n + 1, name |-> name, email |-> email,
                  faceDataUrl |-> faceDataUrl, faceDescriptor |-> faceDescriptor,
                  livenessVerificationPassed |-> livenessVerificationPassed,
                  signupCalled |-> out = "signup" ]
       IN /\ lastCapture' = c
          /\ isProcessingSignup' = (out = "signup")
          /\ signupInFlight' = IF out = "signup" THEN signupInFlight + 1
                               ELSE signupInFlight
          /\ signupCalls' = IF out = "signup" THEN Append(signupCalls, c)
                            ELSE signupCalls
  /\ UNCHANGED << captureVars, name, email >>

\* signup settles: with success the form navigates away, otherwise (false, or a
\* rejection) isProcessingSignup is cleared.
SignupSettles ==
  /\ signupInFlight > 0
  /\ signupInFlight' = signupInFlight - 1
  /\ \E success \in BOOLEAN :
       isProcessingSignup' = IF success THEN isProcessingSignup ELSE FALSE
  /\ UNCHANGED << captureVars, name, email, signupCalls, lastCapture >>

\* ------------------------------------------------------- specifications
Next ==
  \/ ModelsLoaded
  \/ ModelsLoadFails
  \/ HandleStartHumanVerification
  \/ GetUserMediaResolves
  \/ \E notAllowed \in BOOLEAN : GetUserMediaRejects(notAllowed)
  \/ PlayResolves
  \/ PlayRejects
  \/ \E s \in Streams : TimerFires(s)
  \/ \E s \in Streams : TrackEnded(s)
  \/ \E s \in Streams : MediaRecorderOnStop(s)
  \/ \E s \in Streams : LoginDescriptorSettles(s)
  \/ \E s \in Streams : ApiReturns(s)
  \/ HandleRetry
  \/ Unmount
  \/ LoginWithFaceSettles

Spec == Init /\ [][Next]_vars

\* What the browser owes the page: a promise that settles, a queued event or a
\* timer that is delivered.  The clicks, the unmount and the camera going away
\* are up to the user.
Delivery ==
  \/ ModelsLoaded \/ ModelsLoadFails
  \/ GetUserMediaResolves
  \/ \E notAllowed \in BOOLEAN : GetUserMediaRejects(notAllowed)
  \/ PlayResolves \/ PlayRejects
  \/ LoginWithFaceSettles
  \/ \E s \in Streams : TimerFires(s)
  \/ \E s \in Streams : MediaRecorderOnStop(s)
  \/ \E s \in Streams : LoginDescriptorSettles(s)
  \/ \E s \in Streams : ApiReturns(s)

\* While something is owed, something is delivered.
FairSpec == Spec /\ WF_vars(Delivery)

\* With the manual final capture, whose button the widget never shows.
NextAll == Next \/ HandleManualFinalCapture \/ ManualDescriptorSettles

SpecAll == Init /\ [][NextAll]_vars

\* SignupForm by itself: its handler applied to every combination of arguments.
SignupInit == Init /\ context = "signup"

SignupNext == SetName \/ SetEmail \/ SignupOnFaceCaptured \/ SignupSettles

SignupSpec == SignupInit /\ [][SignupNext]_vars

\* ---------------------------------------------------------------- claims
RECURSIVE IsSubseq(_, _)
\* The events of sub occur in seq, in this order.
IsSubseq(sub, seq) ==
  IF sub = << >> THEN TRUE
  ELSE IF seq = << >> THEN FALSE
  ELSE IF Head(sub) = Head(seq) THEN IsSubseq(Tail(sub), Tail(seq))
  ELSE IsSubseq(sub, Tail(seq))

Events(a) == {hist[a][i] : i \in 1 .. Len(hist[a])}
CallsOf(a) == {i \in 1 .. Len(calls) : calls[i].attempt = a}
FailEvents == {"recError", "tooLarge", "apiError", "apiNotLive"}
PassedSteps == { "liveness_api_passed_awaiting_final_camera",
                 "liveness_api_passed_ready_for_manual_final_capture" }

\* The manual final capture cannot be invoked: its button is never shown and the
\* steps that lead to it are never taken, so Next has every step the widget takes.
ManualCaptureUnreachable ==
  /\ ~showManualFinalCaptureButton
  /\ manualCapture = 0
  /\ livenessStep \notin { "liveness_api_passed_ready_for_manual_final_capture",
                           "final_capture_active", "processing_final_capture" }

\* C1: onFaceCaptured is called with livenessVerificationPassed = true only
\* after, in the same attempt and in this order, a stream was acquired, a recording
\* was started and then stopped, and the liveness API answered "live".  (The manual
\* final capture, the other place of such a call, is never reached.)
C1_PassedOnlyAfterFullSequence ==
  /\ \A i \in 1 .. Len(calls) :
       calls[i].passed =>
         IsSubseq(<< "stream", "recStart", "recStop", "apiLive" >>, calls[i].trace)
  /\ ManualCaptureUnreachable

C1_Witness ==
  \E i \in 1 .. Len(calls) : calls[i].passed /\ context = "login"

\* C2: in every context, once the camera is active while livenessStep is
\* awaiting_camera_for_video, a recording eventually starts.
C2_RecordingEventuallyStarts ==
  (mounted /\ isCameraActive /\ livenessStep = "awaiting_camera_for_video")
    ~> (~mounted \/ livenessStep = "recording_video")

\* C3: at most one stream of the widget has live tracks, at most one getUserMedia
\* request is pending, and a request is pending only while no stream is live.
C3_OneCameraHandle ==
  /\ Cardinality(liveTracks) <= 1
  /\ Len(gumPending) <= 1
  /\ (gumPending # << >> => liveTracks = {})

C3_Witness ==
  /\ Len(gumPending) = 1 /\ nStreams >= 1 /\ attempt = 2

\* C4: a recording is stopped at the latest when its timer fires; once started, it
\* is stopped and its onstop sets livenessStep to verifying_video_with_api (line
\* 205; for a video over the size limit the same handler goes on to
\* liveness_failed_or_error), and a mounted widget leaves recording_video.
RecordingInProgress(s) ==
  recorderState[s] = "recording" \/ onstopPhase[s] \in {"queued", "descriptor"}

AllConditions(sum) ==
  sum.httpOk /\ sum.outerParses /\ sum.innerParses /\ sum.isLiveTrue

C5_PassIffConditions ==
  [][\A s \in Streams :
       (onstopPhase[s] = "api" /\ onstopPhase'[s] = "done") =>
         LET a == streamAttempt[s]
             pass == AllConditions(apiResp'[s])
         IN /\ pass <=> hist'[a][Len(hist'[a])] = "apiLive"
            /\ ~pass => hist'[a][Len(hist'[a])] \in {"apiError", "apiNotLive"}
            /\ mounted =>
                 /\ pass => livenessStep' \in PassedSteps
                 /\ ~pass => livenessStep' = "liveness_failed_or_error"]_vars

C5_Witness ==
  \E s, t \in Streams :
    /\ onstopPhase[s] = "done" /\ s \in uploads /\ AllConditions(apiResp[s])
    /\ onstopPhase[t] = "done" /\ t \in uploads
    /\ apiResp[t].innerParses /\ ~apiResp[t].isLiveTrue
    /\ mounted /\ livenessStep = "liveness_failed_or_error"

\* C6: an attempt that entered the recording step and failed has exactly one
\* onFaceCaptured call, (null, null, false), and its failure leaves a mounted
\* widget in liveness_failed_or_error with isRecording and isVerifyingWithAPI false.
C6_FailureReportedOnce ==
  /\ [](\A a \in Attempts :
          Events(a) \cap FailEvents # {} =>
            /\ Cardinality(CallsOf(a)) = 1
            /\ \A i \in CallsOf(a) :
                 /\ calls[i].dataUrl = 0 /\ calls[i].descriptor = 0
                 /\ calls[i].passed = FALSE)
  /\ [][\A a \in Attempts :
          (/\ Len(hist'[a]) > Len(hist[a])
           /\ hist'[a][Len(hist'[a])] \in FailEvents
           /\ mounted)
          => /\ livenessStep' = "liveness_failed_or_error"
             /\ ~isRecording' /\ ~isVerifyingWithAPI']_vars

C6_Witness ==
  \E a, b \in Attempts :
    /\ "recError" \in Events(a) /\ "apiNotLive" \in Events(b)
    /\ Len(calls) = 2 /\ mounted

\* C7: a recorded video is posted to the endpoint exactly when it is at most
\* MAX_VIDEO_SIZE_MB * 1024 * 1024 bytes; a larger one ends the attempt in
\* liveness_failed_or_error.
C7_UploadIffWithinLimit ==
  /\ [](\A s \in Streams :
          onstopPhase[s] \in {"api", "done"} =>
            /\ s \in uploads <=> videoBlobSize[s] <= 6 * 1024 * 1024
            /\ videoBlobSize[s] > 6 * 1024 * 1024 =>
                 /\ "tooLarge" \in Events(streamAttempt[s])
                 /\ "upload" \notin Events(streamAttempt[s]))
  /\ [][\A s \in Streams :
          (/\ onstopPhase[s] \notin {"api", "done"}
           /\ onstopPhase'[s] \in {"api", "done"}
           /\ videoBlobSize'[s] > 6 * 1024 * 1024
           /\ mounted)
          => livenessStep' = "liveness_failed_or_error"]_vars

C7_Witness ==
  \E s, t \in Streams :
    /\ s \in uploads /\ videoBlobSize[s] = 6 * 1024 * 1024
    /\ onstopPhase[t] = "done" /\ t \notin uploads
    /\ videoBlobSize[t] = 6 * 1024 * 1024 + 1

\* C8: in login, the image and the descriptor of a passed call come from the
\* video of the same attempt, drawn after the recording stopped and before
\* stopCamera and before the upload.
C8_LoginFrameOfSameAttempt ==
  \A i \in 1 .. Len(calls) :
    (calls[i].passed /\ context = "login") =>
      /\ calls[i].descriptor # 0 => calls[i].descriptor = calls[i].dataUrl
      /\ calls[i].dataUrl # 0 =>
           /\ streamAttempt[calls[i].dataUrl] = calls[i].attempt
           /\ IsSubseq(<< "recStart", "recStop", "frame", "stopCamera", "upload" >>,
                       calls[i].trace)

C8_Witness ==
  \E i \in 1 .. Len(calls) :
    /\ calls[i].passed /\ context = "login" /\ calls[i].attempt = 2
    /\ calls[i].descriptor # 0

\* C9: while a loginWithFace call is in flight the start button cannot be used,
\* and no second loginWithFace call starts.
C9_NoStartWhileLoginInFlight ==
  /\ loginInFlight <= 1
  /\ loginInFlight > 0 => ~(mounted /\ showInitialButton /\ ~initialButtonDisabled)

\* C10: after the unmount no camera track of the widget is live.
C10_NoLiveTrackAfterUnmount ==
  ~mounted => liveTracks = {}

\* C11: in login, loginWithFace is called only in the onFaceCaptured call that
\* reports the attempt's liveness check as passed (with a descriptor, after the
\* API answered "live" in that attempt); an attempt whose check failed or errored
\* has no loginWithFace call.
LoginAttempts == {logins[i] : i \in 1 .. Len(logins)}

C11_LoginOnlyAfterPassedLiveness ==
  /\ \A a \in LoginAttempts :
       /\ context = "login"
       /\ "apiLive" \in Events(a)
       /\ Events(a) \cap FailEvents = {}
       /\ \E i \in CallsOf(a) : calls[i].passed /\ calls[i].descriptor # 0
  /\ \A a \in Attempts : Events(a) \cap FailEvents # {} => a \notin LoginAttempts
  /\ Len(logins) <= Cardinality({i \in 1 .. Len(calls) : calls[i].passed})

C11_Witness ==
  \E a, b \in Attempts :
    /\ a \in LoginAttempts
    /\ b \notin LoginAttempts /\ Events(b) \cap FailEvents # {}

\* C12: SignupForm (first definition) calls signup only when name and email are
\* non-empty, livenessVerificationPassed is true and faceDataUrl and
\* faceDescriptor are non-null; a call of the handler with any other combination
\* (livenessVerificationPassed undefined included) makes no signup call.
SignupPreconditions(c) ==
  /\ c.name # "" /\ c.email # ""
  /\ c.livenessVerificationPassed = "true"
  /\ c.faceDataUrl # "null" /\ c.faceDescriptor # "null"

C12_SignupOnlyForPassedCapture ==
  /\ [](\A i \in 1 .. Len(signupCalls) : SignupPreconditions(signupCalls[i]))
  /\ [](lastCapture.signupCalled => SignupPreconditions(lastCapture))
  /\ [][(lastCapture'.n # lastCapture.n /\ ~SignupPreconditions(lastCapture'))
          => (signupCalls' = signupCalls /\ signupInFlight' = signupInFlight)]_vars

C12_Witness ==
  /\ Len(signupCalls) = 1
  /\ lastCapture.n = 2 /\ ~lastCapture.signupCalled
  /\ lastCapture.name # "" /\ lastCapture.email # ""
  /\ lastCapture.livenessVerificationPassed = "undefined"
  /\ lastCapture.faceDataUrl = "data:image/png" /\ lastCapture.faceDescriptor = "[0.12]"

\* C13: while the models are not loaded, handleStartHumanVerification returns
\* with the state as it found it (livenessStep, error, stream, busy flags) and
\* without a getUserMedia request; and no getUserMedia request was ever made, no
\* attempt started, before the models have loaded.
C13_NoStartBeforeModels ==
  ~modelsLoadedRef =>
    /\ \A mrOk \in BOOLEAN, env \in EnvsOf(context) :
         handleStartHumanVerification(Cur, Cur, attempt + 1, mrOk, env) = Cur
    /\ ~(mounted /\ showInitialButton)
    /\ attempt = 0 /\ gumPending = << >> /\ nStreams = 0
    /\ currentStream = 0 /\ ~isStartingCamera /\ ~isCameraActive

C13_Witness ==
  /\ ~modelsLoadedRef /\ mounted /\ modelLoads = 0
  /\ livenessStep = "liveness_failed_or_error" /\ error = "models_error"
  /\ \A mrOk \in BOOLEAN, env \in EnvsOf(context) :
       handleStartHumanVerification(Cur, Cur, attempt + 1, mrOk, env) = Cur

\* C14: whenever livenessStep is verifying_video_with_api the <video> has no
\* source and no track of the recorded stream is live; and a video is posted to
\* the liveness API only once the tracks of its stream have been stopped.
C14_CameraReleasedBeforeUpload ==
  /\ livenessStep = "verifying_video_with_api" =>
       /\ videoSrcObject = 0
       /\ \A s \in Streams : recorderState[s] # "none" => s \notin liveTracks
  /\ \A s \in uploads : s \notin liveTracks

\* C15: handleRetry, in whatever state of the mounted widget it is called, leaves
\* the camera stopped (no stream, no source, no live track, no recorder
\* recording), error null and isRecording, isVerifyingWithAPI and
\* isProcessingFinalCapture false; livenessStep is initial when the models are
\* loaded, else awaiting_models with one more model load under way.
AfterRetry(e) ==
  /\ e.currentStream = 0 /\ e.videoSrcObject = 0 /\ e.liveTracks = {}
  /\ ~e.isCameraActive /\ e.mediaRecorderRef = 0
  /\ \A s \in Streams : e.recorderState[s] # "recording"
  /\ e.error = "null"
  /\ ~e.isRecording /\ ~e.isVerifyingWithAPI /\ ~e.isProcessingFinalCapture
  /\ modelsLoadedRef => e.livenessStep = "initial" /\ e.modelLoads = modelLoads
  /\ ~modelsLoadedRef =>
       e.livenessStep = "awaiting_models" /\ e.modelLoads = modelLoads + 1

C15_RetryResets ==
  /\ [](mounted => AfterRetry(Effects(Cur, handleRetry(Cur, Cur), attempt)))
  /\ [][HandleRetry =>
          /\ currentStream' = 0 /\ liveTracks' = {} /\ ~isCameraActive'
          /\ error' = "null"
          /\ ~isRecording' /\ ~isVerifyingWithAPI' /\ ~isProcessingFinalCapture'
          /\ livenessStep' = IF modelsLoadedRef THEN "initial" ELSE "awaiting_models"
          /\ modelLoads' = IF modelsLoadedRef THEN modelLoads ELSE modelLoads + 1]_vars

C15_Witness ==
  /\ mounted /\ modelsLoadedRef /\ attempt = 1 /\ "apiNotLive" \in Events(1)
  /\ livenessStep = "initial" /\ error = "null" /\ showInitialButton

\* C16: when getUserMedia rejects, the mounted widget is left with error set
\* (the camera-permission message for a NotAllowedError), livenessStep
\* liveness_failed_or_error, no stream, isStartingCamera false and the retry
\* button shown; the rejection causes no onFaceCaptured call, and the attempt has
\* none.
C16_CameraRejected ==
  [][\A notAllowed \in BOOLEAN :
       (GetUserMediaRejects(notAllowed) /\ mounted) =>
         /\ error' # "null"
         /\ notAllowed => error' = "Permiso de camara denegado."
         /\ livenessStep' = "liveness_failed_or_error"
         /\ currentStream' = 0 /\ ~isStartingCamera'
         /\ calls' = calls /\ logins' = logins
         /\ \A i \in 1 .. Len(calls') : calls'[i].attempt # Head(gumPending)
         /\ showRetryButton']_vars

C16_Witness ==
  /\ mounted /\ error = "Permiso de camara denegado." /\ showRetryButton
  /\ attempt = 2 /\ Len(calls) = 1 /\ gumPending = << >> /\ nStreams = 1

\* C17: in login, every click on the start button begins an attempt (a camera
\* request, livenessStep awaiting_camera_for_video), and every attempt of a
\* mounted widget eventually ends: livenessStep is liveness_failed_or_error or
\* liveness_api_passed_awaiting_final_camera and isStartingCamera, isRecording
\* and isVerifyingWithAPI are false.
InProgressSteps ==
  {"awaiting_camera_for_video", "recording_video", "verifying_video_with_api"}

AttemptEnded ==
  /\ livenessStep \in { "liveness_failed_or_error",
                        "liveness_api_passed_awaiting_final_camera" }
  /\ ~isStartingCamera /\ ~isRecording /\ ~isVerifyingWithAPI

C17_AttemptTerminates ==
  /\ [][(HandleStartHumanVerification /\ context = "login") =>
          /\ livenessStep' = "awaiting_camera_for_video"
          /\ isStartingCamera' /\ gumPending' = << attempt' >>]_vars
  /\ (context = "login" /\ mounted
        /\ (livenessStep \in InProgressSteps
              \/ isStartingCamera \/ isRecording \/ isVerifyingWithAPI))
       ~> (~mounted \/ AttemptEnded)

C17_Witness ==
  /\ context = "login" /\ mounted /\ attempt = 2 /\ AttemptEnded
  /\ "apiLive" \in Events(1) /\ "tooLarge" \in Events(2)

\* C18: when the models are loaded, nothing asynchronous is pending (model
\* load, getUserMedia, play, recording, onstop with its descriptor and API call,
\* manual descriptor) and the host form is not processing, the mounted widget
\* shows an enabled start, retry or manual capture button.
NothingPending ==
  /\ modelLoads = 0 /\ gumPending = << >> /\ ~playPending /\ timers = {}
  /\ \A s \in Streams :
       recorderState[s] # "recording" /\ onstopPhase[s] \in {"none", "done"}
  /\ manualCapture = 0

ParentProcessing ==
  isProcessingLogin \/ loginInFlight > 0 \/ isProcessingSignup \/ signupInFlight > 0

C18_SomeButtonEnabledWhenIdle ==
  (mounted /\ modelsLoadedRef /\ NothingPending /\ ~ParentProcessing) =>
    \/ showInitialButton /\ ~initialButtonDisabled
    \/ showRetryButton
    \/ showManualFinalCaptureButton /\ ~manualButtonDisabled
====
